---- MODULE Spec2Model ----
(***************************************************************************)
(* Model of code/04-feature-engineering.ipynb: the feature-generation      *)
(* functions (add_lags, add_rolling_features,                              *)
(* add_seasonal_rolling_features, add_ewma, add_temporal_features,         *)
(* bulk_add_fourier_features) and the notebook's run from tagging the      *)
(* partitions to writing the feature-engineered partitions.                *)
(*                                                                         *)
(* Numbers.  A reading is an integer; every derived number is an exact     *)
(* rational [n, d] with d > 0 in lowest terms.  NaN, the missing-value     *)
(* marker of pandas, is [n |-> 0, d |-> 0].  Floating-point rounding is    *)
(* not modelled: a cast to float32 keeps NaN and the (real) value, a cast  *)
(* to int32 fails on NaN and truncates towards zero otherwise.             *)
(*                                                                         *)
(* Tables.  A table is a sequence of rows; a column added by a feature     *)
(* function is a sequence of numbers aligned with the rows, kept under its *)
(* pandas column name in `features`.                                       *)
(***************************************************************************)
EXTENDS Integers, Sequences, FiniteSets, TLC

VARIABLES
    train_df,   \* the train partition as read (cell 3)
    val_df,     \* the val partition as read
    test_df,    \* the test partition as read
    dtype,      \* pandas dtype name of the energy_consumption column
    full_df,    \* the working table (rows), sorted by (LCLid, timestamp)
    features,   \* columns added to full_df: column name -> sequence of numbers
    added_features, \* the names returned by the last feature function
    call,       \* the arguments of the last feature-function call
    err,        \* "none", or the exception the last call raised
    pc,         \* position of the notebook run / of the caller
    written     \* the artifacts written so far: partition tag -> rows

vars == <<train_df, val_df, test_df, dtype, full_df, features, added_features,
          call, err, pc, written>>

----------------------------------------------------------------------------
(* Bounds of the model *)

\* rows of a table
MaxRows == 4
\* largest lag offset
MaxLag == 3
\* largest rolling window
MaxWindow == 2
\* n_shift, when the caller does not pass it
DefaultShift == 1
\* largest seasonal period
MaxSeason == 2

\* household identifiers (LCLid), in their sort order
LCLids == 1..2
\* half-hourly readings
Readings == 1..2
\* dtypes the energy_consumption column is read with
Dtypes == {"float64", "int64"}

----------------------------------------------------------------------------
(* Exact rational arithmetic *)

NaN == [n |-> 0, d |-> 0]

isna(x) == x.d = 0

Abs(i) == IF i < 0 THEN -i ELSE i

RECURSIVE Gcd(_, _)
Gcd(a, b) == IF b = 0 THEN a ELSE Gcd(b, a % b)

\* the rational n/d (d # 0) in lowest terms with a positive denominator
Rat(n, d) ==
    LET g == Gcd(Abs(n), Abs(d))
        s == IF d < 0 THEN -1 ELSE 1
    IN  [n |-> (s * n) \div g, d |-> (s * d) \div g]

Num(i) == [n |-> i, d |-> 1]

RAdd(x, y) == IF isna(x) \/ isna(y) THEN NaN ELSE Rat(x.n * y.d + y.n * x.d, x.d * y.d)
RSub(x, y) == IF isna(x) \/ isna(y) THEN NaN ELSE Rat(x.n * y.d - y.n * x.d, x.d * y.d)
RMul(x, y) == IF isna(x) \/ isna(y) THEN NaN ELSE Rat(x.n * y.n, x.d * y.d)
\* x / y; a zero divisor gives NaN
RDiv(x, y) == IF isna(x) \/ isna(y) \/ y.n = 0 THEN NaN ELSE Rat(x.n * y.d, x.d * y.n)
RLess(x, y) == x.n * y.d < y.n * x.d

RECURSIVE RSum(_)
RSum(s) == IF s = <<>> THEN Num(0) ELSE RAdd(Head(s), RSum(Tail(s)))

\* truncation towards zero, as a cast of a finite float to an integer does
Trunc(x) ==
    IF x.n >= 0 THEN Num(x.n \div x.d) ELSE Num(-((-x.n) \div x.d))

----------------------------------------------------------------------------
(* Tables *)

Row(id, t, v, tag) ==
    [LCLid |-> id, timestamp |-> t, energy_consumption |-> v, type |-> tag]

\* the array with the elements of f, as an explicit sequence
Array(f) == SubSeq(f, 1, Len(f))

\* the column df[column] for column = 'energy_consumption'
Column(df) == Array([i \in 1..Len(df) |-> Num(df[i].energy_consumption)])

\* the table indices of the rows of row i's LCLid group, in table order
GroupIdx(df, i) ==
    SelectSeq(Array([j \in 1..Len(df) |-> j]), LAMBDA j : df[j].LCLid = df[i].LCLid)

\* 0-based position of row i within its LCLid group
GroupPos(df, i) == Cardinality({j \in 1..(i - 1) : df[j].LCLid = df[i].LCLid})

\* pandas Series.shift(n) on an array
shift(x, n) ==
    Array([i \in 1..Len(x) |-> IF i - n >= 1 /\ i - n <= Len(x) THEN x[i - n] ELSE NaN])

\* the shift without the grouping: df[column].shift(n)
ungrouped_shift(df, n) == shift(Column(df), n)

\* the shift towards the past rows: df.groupby(ts_id)[column].shift(-n)
groupby_shift_back(df, n) ==
    Array([i \in 1..Len(df) |->
        LET g == GroupIdx(df, i)
            p == GroupPos(df, i) + n
        IN  IF p >= 0 /\ p < Len(g) THEN Num(df[g[p + 1]].energy_consumption) ELSE NaN])

\* the shift within each partition: df.groupby([ts_id, 'type'])[column].shift(n)
groupby_shift_within_partition(df, n) ==
    Array([i \in 1..Len(df) |->
        LET g == SelectSeq(GroupIdx(df, i), LAMBDA j : df[j].type = df[i].type)
            p == Cardinality({j \in 1..(i - 1) :
                                df[j].LCLid = df[i].LCLid /\ df[j].type = df[i].type}) - n
        IN  IF p >= 0 /\ p < Len(g) THEN Num(df[g[p + 1]].energy_consumption) ELSE NaN])

\* df.groupby(ts_id)[column].shift(n): each group shifted on its own, the
\* result aligned with the rows of df
groupby_shift(df, n) ==
    Array([i \in 1..Len(df) |->
        LET g == GroupIdx(df, i)
            p == GroupPos(df, i) - n
        IN  IF p >= 0 /\ p < Len(g) THEN Num(df[g[p + 1]].energy_consumption) ELSE NaN])

----------------------------------------------------------------------------
(* 32-bit storage *)

FloatDtypes == {"float16", "float32", "float64"}
IntDtypes == {"int8", "int16", "int32", "int64"}

\* get_32_bit_dtype(col): by the name of the column's dtype
get_32_bit_dtype(dt) ==
    IF dt \in FloatDtypes THEN "float32"
    ELSE IF dt \in IntDtypes THEN "int32"
    ELSE "None"

\* Series.astype(dt) raises when dt is integral and the series holds NaN
astype_raises(x, dt) == dt = "int32" /\ \E i \in 1..Len(x) : isna(x[i])

astype(x, dt) ==
    Array([i \in 1..Len(x) |-> IF dt = "int32" /\ ~isna(x[i]) THEN Trunc(x[i]) ELSE x[i]])

\* the value a feature function returns: the added columns, or the exception
Returned(cols) == [err |-> "none", cols |-> cols]
Raised(e) == [err |-> e, cols |-> <<>>]

----------------------------------------------------------------------------
(* add_lags *)

lag_name(l) == "energy_consumption_lag_" \o ToString(l)

add_lags(df, lags, dt, use_32_bit) ==
    LET _32_bit_dtype == get_32_bit_dtype(dt)
    IN  IF use_32_bit /\ _32_bit_dtype # "None"
        THEN IF \E l \in lags : astype_raises(groupby_shift(df, l), _32_bit_dtype)
             THEN Raised("IntCastingNaNError")
             ELSE Returned([c \in {lag_name(l) : l \in lags} |->
                     LET l == CHOOSE k \in lags : lag_name(k) = c
                     IN  astype(groupby_shift(df, l), _32_bit_dtype)])
        ELSE Returned([c \in {lag_name(l) : l \in lags} |->
                     LET l == CHOOSE k \in lags : lag_name(k) = c
                     IN  groupby_shift(df, l)])

-----------------------------------------------------------------------(* add_rolling_features *)

\* the aggregation kinds.  A 'std' column is kept as its square, the sample
\* variance (N - 1 denominator), which is exact; NaN for a window of one value
AggFuncs == {"mean", "std", "min", "max"}

\* the sample variance of a window without NaN
Variance(w) ==
    LET mean == RDiv(RSum(w), Num(Len(w)))
        sq == [i \in 1..Len(w) |-> RMul(RSub(w[i], mean), RSub(w[i], mean))]
    IN  RDiv(RSum(sq), Num(Len(w) - 1))

RMin(s) == CHOOSE x \in {s[i] : i \in 1..Len(s)} : \A i \in 1..Len(s) : ~RLess(s[i], x)
RMax(s) == CHOOSE x \in {s[i] : i \in 1..Len(s)} : \A i \in 1..Len(s) : ~RLess(x, s[i])

\* the aggregate of a window (a non-empty sequence); NaN when it holds a NaN
Aggregate(agg, w) ==
    IF \E i \in 1..Len(w) : isna(w[i]) THEN NaN
    ELSE IF agg = "mean" THEN RDiv(RSum(w), Num(Len(w)))
    ELSE IF agg = "std" THEN Variance(w)
    ELSE IF agg = "min" THEN RMin(w)
    ELSE RMax(w)

\* Series.rolling(l).agg(agg), min_periods = l: the trailing window of the l
\* rows of the array ending at row i, whatever group the rows belong to
rolling(x, l, agg) ==
    Array([i \in 1..Len(x) |->
        IF i - l + 1 >= 1 THEN Aggregate(agg, SubSeq(x, i - l + 1, i)) ELSE NaN])

rolling_name(l, agg) == "energy_consumption_rolling_" \o ToString(l) \o "_" \o agg

RollingKeys(rolls, agg_funcs) == {<<l, agg>> : l \in rolls, agg \in agg_funcs}

add_rolling_features(df, rolls, agg_funcs, n_shift, dt, use_32_bit) ==
    LET _32_bit_dtype == get_32_bit_dtype(dt)
        keys == RollingKeys(rolls, agg_funcs)
        rolling_df ==
            [c \in {rolling_name(k[1], k[2]) : k \in keys} |->
                LET k == CHOOSE q \in keys : rolling_name(q[1], q[2]) = c
                IN  rolling(groupby_shift(df, n_shift), k[1], k[2])]
    IN  IF use_32_bit /\ _32_bit_dtype # "None"
        THEN IF \E c \in DOMAIN rolling_df : astype_raises(rolling_df[c], _32_bit_dtype)
             THEN Raised("IntCastingNaNError")
             ELSE Returned([c \in DOMAIN rolling_df |-> astype(rolling_df[c], _32_bit_dtype)])
        ELSE Returned(rolling_df)

----------------------------------------------------------------------------
(* add_seasonal_rolling_features, with window_ops.rolling.seasonal_rolling_* *)

\* the window taken over adjacent elements instead of one phase: rolling_<agg>
\* over x itself
contiguous_rolling(x, sp, l, agg) ==
    LET notna == {j \in 1..Len(x) : ~isna(x[j])}
    IN  Array([i \in 1..Len(x) |->
            IF notna # {} /\ \A j \in (i - l + 1)..i : j \in notna
            THEN Aggregate(agg, [j \in 1..l |-> x[i - (l - j)]])
            ELSE NaN])

\* window_ops seasonal_rolling_<agg>(x, season_length = sp, window_size = l):
\* rolling_<agg>, with min_samples = window_size, over each phase sub-array
\* x[season::sp].  At the element of the sub-array that is index i of x the
\* result is the aggregate of the l elements of the sub-array ending there,
\* once l elements from the sub-array's first non-NaN one on are available.
seasonal_rolling(x, sp, l, agg) ==
    LET notna == {j \in 1..Len(x) : ~isna(x[j])}
    IN  Array([i \in 1..Len(x) |->
            LET phase == {j \in notna : j % sp = i % sp}
                start_idx == CHOOSE j \in phase : \A k \in phase : j <= k
            IN  IF phase # {} /\ i - (l - 1) * sp >= start_idx
                THEN Aggregate(agg, [j \in 1..l |-> x[i - (l - j) * sp]])
                ELSE NaN])

seasonal_name(sp, l, agg) ==
    "energy_consumption_" \o ToString(sp) \o "_seasonal_rolling_" \o ToString(l) \o "_" \o agg

\* the values of the rows of group id, in table order
GroupValues(df, id) ==
    LET g == SelectSeq(Array([j \in 1..Len(df) |-> j]), LAMBDA j : df[j].LCLid = id)
    IN  Array([p \in 1..Len(g) |-> Num(df[g[p]].energy_consumption)])

\* df.groupby(ts_id)[column].transform(lambda x: agg(x.shift(n).values, sp, l)):
\* the function applied to each group, the results aligned with the rows of df
groupby_transform_seasonal(df, n, sp, l, agg) ==
    LET out == Array([id \in 1..Cardinality(LCLids) |->
                    seasonal_rolling(shift(GroupValues(df, id), n), sp, l, agg)])
    IN  Array([i \in 1..Len(df) |-> out[df[i].LCLid][GroupPos(df, i) + 1]])

SeasonalKeys(seasonal_periods, rolls, agg_funcs) ==
    {<<sp, l, agg>> : sp \in seasonal_periods, l \in rolls, agg \in agg_funcs}

add_seasonal_rolling_features(df, seasonal_periods, rolls, agg_funcs, n_shift, dt, use_32_bit) ==
    LET _32_bit_dtype == get_32_bit_dtype(dt)
        keys == SeasonalKeys(seasonal_periods, rolls, agg_funcs)
        col_dict ==
            [c \in {seasonal_name(k[1], k[2], k[3]) : k \in keys} |->
                LET k == CHOOSE q \in keys : seasonal_name(q[1], q[2], q[3]) = c
                IN  groupby_transform_seasonal(df, n_shift * k[1], k[1], k[2], k[3])]
    IN  IF use_32_bit /\ _32_bit_dtype # "None"
        THEN IF \E c \in DOMAIN col_dict : astype_raises(col_dict[c], _32_bit_dtype)
             THEN Raised("IntCastingNaNError")
             ELSE Returned([c \in DOMAIN col_dict |-> astype(col_dict[c], _32_bit_dtype)])
        ELSE Returned(col_dict)

----------------------------------------------------------------------------
(* add_ewma *)

\* Python's None, and a list argument
None == [is_none |-> TRUE, items |-> {}]
List(s) == [is_none |-> FALSE, items |-> s]

\* a decay parameter: its text in the column name, and its alpha;
\* for a span, alpha = 2 / (span + 1)
Alpha(text, n, d) == [text |-> text, alpha |-> Rat(n, d)]
Span(span) == [text |-> ToString(span), alpha |-> Rat(2, span + 1)]

\* one step of pandas ewm(alpha, adjust=False, ignore_na=False).mean(): from
\* the running average and the weight of the history to those after `cur`
ewm_step(prev, cur, alpha) ==
    LET old_wt == RMul(prev.old_wt, RSub(Num(1), alpha))
    IN  IF ~isna(prev.weighted)
        THEN IF ~isna(cur)
             THEN [weighted |-> RDiv(RAdd(RMul(old_wt, prev.weighted), RMul(alpha, cur)),
                                     RAdd(old_wt, alpha)),
                   old_wt |-> Num(1)]
             ELSE [weighted |-> prev.weighted, old_wt |-> old_wt]
        ELSE IF ~isna(cur)
             THEN [weighted |-> cur, old_wt |-> prev.old_wt]
             ELSE prev

\* the states of the recursion after each of the first i elements of x
RECURSIVE ewm_states(_, _, _)
ewm_states(x, i, alpha) ==
    IF i = 0 THEN <<>>
    ELSE IF i = 1 THEN <<[weighted |-> x[1], old_wt |-> Num(1)]>>
    ELSE LET prev == ewm_states(x, i - 1, alpha)
         IN  Append(prev, ewm_step(prev[i - 1], x[i], alpha))

\* Series.ewm(alpha=alpha, adjust=False).mean() over the whole array x
ewm_mean(x, alpha) ==
    LET st == ewm_states(x, Len(x), alpha)
    IN  Array([i \in 1..Len(x) |-> st[i].weighted])

ewma_name(use_spans, param) ==
    "energy_consumption_ewma_" \o (IF use_spans THEN "span" ELSE "alpha") \o "_" \o param.text

\* add_ewma behind a check that exactly one of alphas and spans is given
add_ewma_exactly_one(df, alphas, spans, n_shift, dt, use_32_bit) ==
    IF alphas.is_none = spans.is_none THEN Raised("ConflictingParameterError")
    ELSE LET use_spans == ~spans.is_none
             _32_bit_dtype == get_32_bit_dtype(dt)
             params == IF use_spans THEN spans.items ELSE alphas.items
             col_dict ==
                 [c \in {ewma_name(use_spans, q) : q \in params} |->
                     LET param == CHOOSE q \in params : ewma_name(use_spans, q) = c
                     IN  ewm_mean(groupby_shift(df, n_shift), param.alpha)]
         IN  IF use_32_bit /\ _32_bit_dtype # "None"
             THEN IF \E c \in DOMAIN col_dict : astype_raises(col_dict[c], _32_bit_dtype)
                  THEN Raised("IntCastingNaNError")
                  ELSE Returned([c \in DOMAIN col_dict |-> astype(col_dict[c], _32_bit_dtype)])
             ELSE Returned(col_dict)

add_ewma(df, alphas, spans, n_shift, dt, use_32_bit) ==
    LET \* `use_spans` is assigned only when spans is not None
        use_spans_bound == ~spans.is_none
        use_spans == TRUE
        _32_bit_dtype == get_32_bit_dtype(dt)
        params == IF use_spans THEN spans.items ELSE alphas.items
        col_dict ==
            [c \in {ewma_name(use_spans, q) : q \in params} |->
                LET param == CHOOSE q \in params : ewma_name(use_spans, q) = c
                IN  ewm_mean(groupby_shift(df, n_shift), param.alpha)]
    IN  IF ~use_spans_bound THEN Raised("UnboundLocalError")
        ELSE IF use_32_bit /\ _32_bit_dtype # "None"
        THEN IF \E c \in DOMAIN col_dict : astype_raises(col_dict[c], _32_bit_dtype)
             THEN Raised("IntCastingNaNError")
             ELSE Returned([c \in DOMAIN col_dict |-> astype(col_dict[c], _32_bit_dtype)])
        ELSE Returned(col_dict)

----------------------------------------------------------------------------
(* add_temporal_features.  A timestamp is the number of a half-hour slot;   *)
(* slot 1 is 2012-01-01 00:00 UTC, a Sunday, and the slots modelled lie in    *)
(* January 2012.                                                              *)

Day(t) == (t - 1) \div 48
Flag(b) == IF b THEN Num(1) ELSE Num(0)

\* getattr(date_column.dt, n.lower()) for the attributes of `attr`
DtAttr(n, t) ==
    IF n = "Month" THEN Num(1)
    ELSE IF n = "Quarter" THEN Num(1)
    ELSE IF n = "Is_quarter_end" THEN Flag(FALSE)
    ELSE IF n = "Is_quarter_start" THEN Flag(Day(t) = 0)
    ELSE IF n = "Is_year_end" THEN Flag(FALSE)
    ELSE IF n = "Is_year_start" THEN Flag(Day(t) = 0)
    ELSE IF n = "Is_month_start" THEN Flag(Day(t) = 0)
    ELSE IF n = "WeekDay" THEN Num((6 + Day(t)) % 7)
    ELSE IF n = "Dayofweek" THEN Num((6 + Day(t)) % 7)
    ELSE IF n = "Dayofyear" THEN Num(Day(t) + 1)
    ELSE IF n = "Hour" THEN Num(((t - 1) \div 2) % 24)
    ELSE Num(30 * ((t - 1) % 2))

attr == {"Month", "Quarter", "Is_quarter_end", "Is_quarter_start", "Is_year_end",
         "Is_year_start", "Is_month_start", "WeekDay", "Dayofweek", "Dayofyear",
         "Hour", "Minute"}

\* date_column.values.astype(np.int64) // 10**9
Elapsed(t) == Num(1325376000 + 1800 * (t - 1))

\* add_temporal_features(df, 'timestamp', add_elapsed, drop=False, use_32_bit):
\* no timestamp is missing, so every cast is of finite integers
add_temporal_features(df, add_elapsed, use_32_bit) ==
    LET names == {"timestamp_" \o n : n \in attr}
                 \cup (IF add_elapsed THEN {"timestamp_Elapsed"} ELSE {})
    IN  Returned([c \in names |->
            IF c = "timestamp_Elapsed"
            THEN Array([i \in 1..Len(df) |-> Elapsed(df[i].timestamp)])
            ELSE LET n == CHOOSE k \in attr : "timestamp_" \o k = c
                 IN  Array([i \in 1..Len(df) |-> DtAttr(n, df[i].timestamp)])])

----------------------------------------------------------------------------
(* Fourier features.  sin(2 pi q) and cos(2 pi q) are kept as the turn q,   *)
(* reduced to the least turn in [0, 1) with the same sine (q and 1/2 - q) or  *)
(* the same cosine (q and 1 - q), so that two entries are equal exactly when  *)
(* the sines (cosines) are.                                                   *)

\* q modulo 1
Frac(q) == IF isna(q) THEN NaN ELSE Rat(q.n % q.d, q.d)

Least(x, y) == IF RLess(y, x) THEN y ELSE x

SinOfTurn(q) == IF isna(q) THEN NaN ELSE Least(Frac(q), Frac(RSub(Rat(1, 2), q)))
CosOfTurn(q) == IF isna(q) THEN NaN ELSE Least(Frac(q), Frac(RSub(Num(1), q)))

\* Series.max(): NaN for an empty column
ColumnMax(x) == IF Len(x) = 0 THEN NaN ELSE RMax(x)

\* calculate_fourier_terms(seasonal_cycle, max_cycle, n_fourier_terms), the
\* term i of the row with value v: (2 * pi * v * i) / max_cycle, in turns;
\* a zero max_cycle gives NaN
FourierTurn(v, i, max_cycle) == RDiv(RMul(v, Num(i)), max_cycle)

fourier_name(column_to_encode, fn, i) == column_to_encode \o "_" \o fn \o "_" \o ToString(i)

FourierKeys(n_fourier_terms) == {<<fn, i>> : fn \in {"sin", "cos"}, i \in 1..n_fourier_terms}

\* add_fourier_features(df, column_to_encode, max_value, n_fourier_terms): x is
\* the column df[column_to_encode], max_value a number or NaN for None
add_fourier_features(x, column_to_encode, max_value, n_fourier_terms) ==
    LET max_cycle == IF isna(max_value) THEN ColumnMax(x) ELSE max_value
        keys == FourierKeys(n_fourier_terms)
    IN  Returned([c \in {fourier_name(column_to_encode, k[1], k[2]) : k \in keys} |->
            LET k == CHOOSE q \in keys : fourier_name(column_to_encode, q[1], q[2]) = c
            IN  Array([r \in 1..Len(x) |->
                    IF k[1] = "sin" THEN SinOfTurn(FourierTurn(x[r], k[2], max_cycle))
                    ELSE CosOfTurn(FourierTurn(x[r], k[2], max_cycle))])])

\* bulk_add_fourier_features(df, columns_to_encode, max_values, n_fourier_terms):
\* cols are the columns of df, columns_to_encode and max_values sequences
RECURSIVE bulk_add_fourier_features(_, _, _, _)
bulk_add_fourier_features(cols, columns_to_encode, max_values, n_fourier_terms) ==
    IF columns_to_encode = <<>> THEN Returned(<<>>)
    ELSE LET one == add_fourier_features(cols[Head(columns_to_encode)], Head(columns_to_encode),
                                         Head(max_values), n_fourier_terms)
             rest == bulk_add_fourier_features(one.cols @@ cols, Tail(columns_to_encode),
                                               Tail(max_values), n_fourier_terms)
         IN  Returned(rest.cols @@ one.cols)

----------------------------------------------------------------------------
(* Calls of the feature functions on a table sorted by (LCLid, timestamp) *)

SeriesRows(id, vals) == [i \in 1..Len(vals) |-> Row(id, i, vals[i], "train")]

ValSeqs == UNION {[1..n -> Readings] : n \in 0..MaxRows}

\* tables of the series 1 and 2, sorted by (LCLid, timestamp)
SortedTables ==
    {SeriesRows(1, v[1]) \o SeriesRows(2, v[2]) :
        v \in {w \in ValSeqs \X ValSeqs : Len(w[1]) + Len(w[2]) <= MaxRows}}

\* the series of the worked examples: seasonal rolling, and EWMA
SeasonalExample == SeriesRows(1, <<1, 2, 3, 4, 5, 6, 7, 8>>)
EwmaExample == SeriesRows(1, <<10, 20, 30>>)

\* argument values the calls are made with
LagSets == {{l} : l \in 1..MaxLag} \cup {1..MaxLag}
RollSets == {{l} : l \in 1..MaxWindow} \cup {1..MaxWindow}
Shifts == 0..DefaultShift
AlphaArgs == {None, List({Alpha("0.5", 1, 2)})}
SpanArgs == {None, List({Span(3)}), List({Span(3), Span(7)})}

\* max_value: None (NaN here), or a number below, at or above the readings
MaxValueArgs == {NaN, Num(-1), Num(0), Num(1), Num(2), Num(3)}

NoCall == [fn |-> "none"]

InitCalls ==
    /\ train_df = <<>> /\ val_df = <<>> /\ test_df = <<>>
    /\ dtype \in Dtypes
    /\ full_df \in SortedTables \cup {SeasonalExample, EwmaExample}
    /\ features = <<>>
    /\ added_features = {}
    /\ call = NoCall
    /\ err = "none"
    /\ pc = "caller"
    /\ written = <<>>

\* the feature function a call record names, applied to df
Apply(df, dt, c) ==
    IF c.fn = "add_lags" THEN add_lags(df, c.lags, dt, c.use_32_bit)
    ELSE IF c.fn = "add_rolling_features"
        THEN add_rolling_features(df, c.rolls, c.agg_funcs, c.n_shift, dt, c.use_32_bit)
    ELSE IF c.fn = "add_seasonal_rolling_features"
        THEN add_seasonal_rolling_features(df, c.seasonal_periods, c.rolls, c.agg_funcs,
                                           c.n_shift, dt, c.use_32_bit)
    ELSE IF c.fn = "add_fourier_features"
        THEN add_fourier_features(Column(df), c.column_to_encode, c.max_value,
                                  c.n_fourier_terms)
    ELSE add_ewma(df, c.alphas, c.spans, c.n_shift, dt, c.use_32_bit)

\* df2, added_features = f(full_df, ...): one call on the table, the caller
\* left with the added columns or with the exception
Return(args) ==
    LET res == Apply(full_df, dtype, args)
    IN  /\ pc' = "returned"
        /\ call' = args
        /\ err' = res.err
        /\ features' = res.cols
        /\ added_features' = DOMAIN res.cols
        /\ UNCHANGED <<train_df, val_df, test_df, dtype, full_df, written>>

CallAddLags ==
    \E lags \in LagSets, use_32_bit \in BOOLEAN :
        /\ pc = "caller"
        /\ Return([fn |-> "add_lags", lags |-> lags, use_32_bit |-> use_32_bit])

CallAddRollingFeatures ==
    \E rolls \in RollSets, n_shift \in Shifts, use_32_bit \in BOOLEAN :
        /\ pc = "caller"
        /\ Return([fn |-> "add_rolling_features", rolls |-> rolls,
                   agg_funcs |-> {"mean", "max"},
                   n_shift |-> n_shift, use_32_bit |-> use_32_bit])

\* an integral column is only passed with n_shift >= 1: x.shift(0).values keeps
\* the integral dtype, which window_ops cannot fill with NaN
CallAddSeasonalRollingFeatures ==
    \E sp \in 1..MaxSeason, l \in 1..MaxWindow, agg_funcs \in {{"mean", "min"}},
       n_shift \in Shifts, use_32_bit \in BOOLEAN :
        /\ pc = "caller"
        /\ ~(dtype \in IntDtypes /\ n_shift = 0)
        /\ Return([fn |-> "add_seasonal_rolling_features", seasonal_periods |-> {sp},
                   rolls |-> {l}, agg_funcs |-> agg_funcs,
                   n_shift |-> n_shift, use_32_bit |-> use_32_bit])

CallAddEwma ==
    \E alphas \in AlphaArgs, spans \in SpanArgs, n_shift \in Shifts, use_32_bit \in BOOLEAN :
        /\ pc = "caller"
        /\ Return([fn |-> "add_ewma", alphas |-> alphas, spans |-> spans,
                   n_shift |-> n_shift, use_32_bit |-> use_32_bit])

\* add_fourier_features(df, 'energy_consumption', max_value, n_fourier_terms=...)
CallAddFourierFeatures ==
    \E max_value \in MaxValueArgs, n_fourier_terms \in 1..2 :
        /\ pc = "caller"
        /\ Return([fn |-> "add_fourier_features", column_to_encode |-> "energy_consumption",
                   max_value |-> max_value, n_fourier_terms |-> n_fourier_terms])

NextCalls ==
    \/ CallAddLags
    \/ CallAddRollingFeatures
    \/ CallAddSeasonalRollingFeatures
    \/ CallAddEwma
    \/ CallAddFourierFeatures

SpecCalls == InitCalls /\ [][NextCalls]_vars

----------------------------------------------------------------------------
(* The notebook run: the cells in their order, from the partitions as read   *)
(* to the three artifacts.  The arguments of the cells are the notebook's,   *)
(* with the lags, windows, periods and spans scaled down to the bounds.      *)

\* a row without the `type` column: as read, and as written by drop(columns='type')
Untagged(r) ==
    [LCLid |-> r.LCLid, timestamp |-> r.timestamp, energy_consumption |-> r.energy_consumption]

\* the rows of df with lo < timestamp <= hi, as a partition file holds them
Partition(df, lo, hi) ==
    LET part == SelectSeq(df, LAMBDA r : lo < r.timestamp /\ r.timestamp <= hi)
    IN  Array([i \in 1..Len(part) |-> Untagged(part[i])])

\* the dates at which the data set was cut into train, val and test
Cuts == {c \in (0..MaxRows) \X (0..MaxRows) : c[1] <= c[2]}

Init ==
    \E df \in SortedTables \ {<<>>}, c \in Cuts :
        /\ train_df = Partition(df, 0, c[1])
        /\ val_df = Partition(df, c[1], c[2])
        /\ test_df = Partition(df, c[2], MaxRows)
        /\ dtype \in Dtypes
        /\ full_df = <<>>
        /\ features = <<>>
        /\ added_features = {}
        /\ call = NoCall
        /\ err = "none"
        /\ pc = "cell_5"
        /\ written = <<>>

\* df['type'] = tag
tag_rows(df, tag) ==
    Array([i \in 1..Len(df) |->
        Row(df[i].LCLid, df[i].timestamp, df[i].energy_consumption, tag)])

\* a concatenation that leaves the last partition out
concat_without_test(a, b, c) == a \o b

\* pd.concat([train_df, val_df, test_df])
concat(a, b, c) == a \o b \o c

KeyLessEq(a, b) ==
    a.LCLid < b.LCLid \/ (a.LCLid = b.LCLid /\ a.timestamp <= b.timestamp)

\* df.sort_values(['LCLid', 'timestamp']): a stable sort
RECURSIVE sort_values(_)
sort_values(df) ==
    IF df = <<>> THEN <<>>
    ELSE LET s == sort_values(SubSeq(df, 1, Len(df) - 1))
             r == df[Len(df)]
             k == Cardinality({j \in 1..Len(s) : KeyLessEq(s[j], r)})
         IN  SubSeq(s, 1, k) \o <<r>> \o SubSeq(s, k + 1, Len(s))

\* a run that goes on to the next cell whatever the cell did
next_cell_ignoring_errors(e, next) == next

\* the run goes on to the next cell unless the cell raised
next_cell(e, next) == IF e = "none" THEN next ELSE "failed"

\* full_df, added_features = f(full_df, ...): the columns are assigned to
\* full_df, on an exception full_df is left as it was
Stage(args, res, next) ==
    /\ call' = args
    /\ err' = res.err
    /\ features' = IF res.err = "none" THEN res.cols @@ features ELSE features
    /\ added_features' = IF res.err = "none" THEN DOMAIN res.cols ELSE added_features
    /\ pc' = next_cell(res.err, next)
    /\ UNCHANGED <<train_df, val_df, test_df, dtype, full_df, written>>

\* cell 5
TagAndConcat ==
    /\ pc = "cell_5"
    /\ train_df' = tag_rows(train_df, "train")
    /\ val_df' = tag_rows(val_df, "val")
    /\ test_df' = tag_rows(test_df, "test")
    /\ full_df' = sort_values(concat(train_df', val_df', test_df'))
    /\ pc' = "cell_9"
    /\ UNCHANGED <<dtype, features, added_features, call, err, written>>

\* cell 9, with the lags of cell 8
LagsArgs == [fn |-> "add_lags", lags |-> 1..MaxLag, use_32_bit |-> TRUE]

AddLags ==
    /\ pc = "cell_9"
    /\ Stage(LagsArgs, Apply(full_df, dtype, LagsArgs), "cell_12")

\* cell 12
RollingArgs ==
    [fn |-> "add_rolling_features", rolls |-> {MaxWindow}, agg_funcs |-> {"mean", "std"},
     n_shift |-> DefaultShift, use_32_bit |-> TRUE]

AddRollingFeatures ==
    /\ pc = "cell_12"
    /\ Stage(RollingArgs, Apply(full_df, dtype, RollingArgs), "cell_15")

\* cell 15
SeasonalArgs ==
    [fn |-> "add_seasonal_rolling_features", seasonal_periods |-> {1, MaxSeason},
     rolls |-> {MaxWindow}, agg_funcs |-> {"mean", "std"},
     n_shift |-> DefaultShift, use_32_bit |-> TRUE]

AddSeasonalRollingFeatures ==
    /\ pc = "cell_15"
    /\ Stage(SeasonalArgs, Apply(full_df, dtype, SeasonalArgs), "cell_18")

\* cell 18: spans only, alphas left at its default
EwmaArgs ==
    [fn |-> "add_ewma", alphas |-> List({Alpha("0.5", 1, 2)}),
     spans |-> List({Span(3), Span(7)}), n_shift |-> DefaultShift, use_32_bit |-> TRUE]

AddEwma ==
    /\ pc = "cell_18"
    /\ Stage(EwmaArgs, Apply(full_df, dtype, EwmaArgs), "cell_21")

\* cell 21
TemporalArgs ==
    [fn |-> "add_temporal_features", add_elapsed |-> TRUE, use_32_bit |-> TRUE]

AddTemporalFeatures ==
    /\ pc = "cell_21"
    /\ Stage(TemporalArgs,
             add_temporal_features(full_df, TemporalArgs.add_elapsed, TemporalArgs.use_32_bit),
             "cell_26")

\* cell 26
FourierArgs ==
    [fn |-> "bulk_add_fourier_features",
     columns_to_encode |-> <<"timestamp_Month", "timestamp_Hour", "timestamp_Minute">>,
     max_values |-> <<Num(12), Num(24), Num(60)>>, n_fourier_terms |-> 5,
     use_32_bit |-> TRUE]

BulkAddFourierFeatures ==
    /\ pc = "cell_26"
    /\ Stage(FourierArgs,
             bulk_add_fourier_features(features, FourierArgs.columns_to_encode,
                                       FourierArgs.max_values, FourierArgs.n_fourier_terms),
             "cell_28_train")

\* full_df[full_df['type'] == tag].drop(columns='type'): the rows and the
\* feature columns of the rows tagged tag
select_type(df, cols, tag) ==
    LET idx == SelectSeq(Array([i \in 1..Len(df) |-> i]), LAMBDA i : df[i].type = tag)
    IN  [rows |-> Array([k \in 1..Len(idx) |-> Untagged(df[idx[k]])]),
         cols |-> [c \in DOMAIN cols |-> Array([k \in 1..Len(idx) |-> cols[c][idx[k]]])]]

\* one to_parquet of cell 28
to_parquet(tag, next) ==
    /\ written' = (tag :> select_type(full_df, features, tag)) @@ written
    /\ pc' = next
    /\ UNCHANGED <<train_df, val_df, test_df, dtype, full_df, features,
                   added_features, call, err>>

WriteTrain ==
    /\ pc = "cell_28_train"
    /\ to_parquet("train", "cell_28_val")

WriteVal ==
    /\ pc = "cell_28_val"
    /\ to_parquet("val", "cell_28_test")

WriteTest ==
    /\ pc = "cell_28_test"
    /\ to_parquet("test", "done")

Next ==
    \/ TagAndConcat
    \/ AddLags
    \/ AddRollingFeatures
    \/ AddSeasonalRollingFeatures
    \/ AddEwma
    \/ AddTemporalFeatures
    \/ BulkAddFourierFeatures
    \/ WriteTrain
    \/ WriteVal
    \/ WriteTest

Spec == Init /\ [][Next]_vars

----------------------------------------------------------------------------
(* What the columns are claimed to hold, stated by (LCLid, timestamp) key.   *)
(* The timestamps of a series are 1, 2, ...: the row at 0-based position p   *)
(* of a series has timestamp p + 1.                                           *)

Rows == 1..Len(full_df)

HasRow(df, id, t) == \E j \in 1..Len(df) : df[j].LCLid = id /\ df[j].timestamp = t

\* the reading of series id at timestamp t, NaN when the series has no such row
ValueAt(df, id, t) ==
    IF HasRow(df, id, t)
    THEN Num(df[CHOOSE j \in 1..Len(df) : df[j].LCLid = id /\ df[j].timestamp = t].energy_consumption)
    ELSE NaN

Returns(fn) == pc = "returned" /\ call.fn = fn /\ err = "none"

\* C1: after add_lags returns, for every lag L and every row, the column
\* {column}_lag_{L} holds the reading of the same series L positions earlier,
\* and NaN when the row has fewer than L predecessors in its series - never a
\* reading of the preceding series
C1_LagHoldsEarlierReadingOfSameSeries ==
    Returns("add_lags") =>
        \A l \in call.lags : \A i \in Rows :
            features[lag_name(l)][i] =
                ValueAt(full_df, full_df[i].LCLid, full_df[i].timestamp - l)

\* a lag column holds a reading in a row with L predecessors and NaN in a row
\* of series 2 that has fewer, although L rows of series 1 precede it
C1_Witness ==
    /\ Returns("add_lags")
    /\ \E l \in call.lags : \E i, k \in Rows :
        /\ full_df[i].LCLid = 2 /\ full_df[i].timestamp <= l /\ i - l >= 1
        /\ isna(features[lag_name(l)][i])
        /\ full_df[k].timestamp > l
        /\ ~isna(features[lag_name(l)][k])

\* the recursive EWMA of a series over its own shifted readings: NaN in the
\* first n_shift rows, then seeded by the first reading of the series
RECURSIVE SeriesEwma(_, _, _, _, _)
SeriesEwma(df, id, t, alpha, n_shift) ==
    IF t <= n_shift \/ ~HasRow(df, id, t) THEN NaN
    ELSE IF t = n_shift + 1 THEN ValueAt(df, id, 1)
    ELSE RAdd(RMul(alpha, ValueAt(df, id, t - n_shift)),
              RMul(RSub(Num(1), alpha), SeriesEwma(df, id, t - 1, alpha, n_shift)))

\* C2: after add_ewma returns, every EWMA column holds, in every row of every
\* series, the recursive EWMA of that series' own shifted readings, with NaN
\* in the rows that have no shifted reading yet
C2_EwmaIsComputedPerSeries ==
    Returns("add_ewma") =>
        \A q \in call.spans.items : \A i \in Rows :
            features[ewma_name(TRUE, q)][i] =
                SeriesEwma(full_df, full_df[i].LCLid, full_df[i].timestamp, q.alpha, call.n_shift)

\* the mean of the readings of series id at the timestamps from..to, NaN when
\* the series lacks one of them
SeriesMean(df, id, from, to) ==
    IF \A t \in from..to : HasRow(df, id, t)
    THEN RDiv(RSum([k \in 1..(to - from + 1) |-> ValueAt(df, id, from + k - 1)]),
              Num(to - from + 1))
    ELSE NaN

\* C3: after add_rolling_features returns, for every window W and every row at
\* position p of a series, {column}_rolling_{W}_mean is the mean of the W readings
\* of that series at positions p-shift-W+1 .. p-shift, and NaN when one of these
\* positions is not in the series; for every shift >= 0
C3_RollingMeanIsComputedPerSeries ==
    Returns("add_rolling_features") =>
        \A l \in call.rolls : \A i \in Rows :
            features[rolling_name(l, "mean")][i] =
                SeriesMean(full_df, full_df[i].LCLid,
                           full_df[i].timestamp - call.n_shift - l + 1,
                           full_df[i].timestamp - call.n_shift)

\* the aggregate of the readings of series id at the l timestamps
\* t - j*sp, j = 0..l-1, NaN when one of them lies before the series' start
SeriesSeasonal(df, id, t, sp, l, agg) ==
    IF \A j \in 0..(l - 1) : HasRow(df, id, t - j * sp)
    THEN LET w == [k \in 1..l |-> ValueAt(df, id, t - (k - 1) * sp)]
             vals == {w[k] : k \in 1..l}
         IN  IF agg = "mean" THEN RDiv(RSum(w), Num(l))
             ELSE IF agg = "min" THEN CHOOSE v \in vals : \A u \in vals : ~RLess(u, v)
             ELSE CHOOSE v \in vals : \A u \in vals : ~RLess(v, u)
    ELSE NaN

MutationsAfter(df, i) ==
    LET later == {j \in 1..Len(df) : /\ df[j].LCLid = df[i].LCLid
                                      /\ df[j].timestamp > df[i].timestamp}
    IN  {[j \in 1..Len(df) |->
            IF j \in later THEN [df[j] EXCEPT !.energy_consumption = f[j]] ELSE df[j]] :
         f \in [later -> Readings]}

LeakageScope ==
    \/ call.fn = "add_lags"
    \/ /\ call.fn \in {"add_rolling_features", "add_seasonal_rolling_features", "add_ewma"}
       /\ call.n_shift = DefaultShift

\* C5: for a call with positive lags or the default shift, the same call on a
\* table that differs only in readings of a series s strictly after a row r of
\* s ends the same way and gives every generated column the same value at r
C5_NoLeakageFromTheFuture ==
    (pc = "returned" /\ LeakageScope) =>
        \A i \in Rows : \A other_df \in MutationsAfter(full_df, i) :
            LET other == Apply(other_df, dtype, call)
            IN  /\ other.err = err
                /\ DOMAIN other.cols = added_features
                /\ \A c \in added_features : other.cols[c][i] = features[c][i]

\* a changed later reading of the series changes a generated column somewhere,
\* and not at the row before it
C5_Witness ==
    /\ pc = "returned" /\ LeakageScope /\ err = "none" /\ added_features # {}
    /\ \E i \in Rows : \E other_df \in MutationsAfter(full_df, i) :
            LET other == Apply(other_df, dtype, call)
            IN  /\ other_df # full_df
                /\ other.cols # features
                /\ \A c \in added_features :
                       other.cols[c][i] = features[c][i] /\ ~isna(features[c][i])

BothGiven == ~call.alphas.is_none /\ ~call.spans.is_none
NeitherGiven == call.alphas.is_none /\ call.spans.is_none
SpanNames == {ewma_name(TRUE, q) : q \in call.spans.items}

C9_AlphasOnlyReturnsTheEwma ==
    (pc = "returned" /\ call.fn = "add_ewma" /\ call.spans.is_none /\ ~call.alphas.is_none) =>
        /\ err = "none"
        /\ added_features = {ewma_name(FALSE, q) : q \in call.alphas.items}
        /\ \A q \in call.alphas.items : \A i \in Rows :
               features[ewma_name(FALSE, q)][i] =
                   SeriesEwma(full_df, full_df[i].LCLid, full_df[i].timestamp,
                              q.alpha, call.n_shift)

\* C10: add_lags returns normally for every lag set, floating or integral
\* column and either setting of use_32_bit, and the first L rows of each series
\* hold NaN in the lag-L column
C10_InsufficientHistoryIsNotAnError ==
    (pc = "returned" /\ call.fn = "add_lags") =>
        /\ err = "none"
        /\ \A l \in call.lags : \A i \in Rows :
               full_df[i].timestamp <= l => isna(features[lag_name(l)][i])

----------------------------------------------------------------------------
(* The notebook run: rows and ordering *)

Tags == {"train", "val", "test"}

\* the partition the run was given for a tag
Input(tag) == IF tag = "train" THEN train_df ELSE IF tag = "val" THEN val_df ELSE test_df

\* the rows of a table as a bag, the `type` column left out
RowBag(df) ==
    LET rows == {Untagged(df[i]) : i \in 1..Len(df)}
    IN  [r \in rows |-> Cardinality({i \in 1..Len(df) : Untagged(df[i]) = r})]

Concatenated == pc # "cell_5"

\* C6: once the partitions are concatenated the working table has as many
\* rows as the three input partitions together, at every step, and so has every
\* feature column; an artifact that is written holds exactly the rows of the
\* input partition of its tag (same (LCLid, timestamp) keys and readings, same
\* count), each of its columns with one entry per row.
C6_RowCountIsPreserved ==
    /\ Concatenated =>
        /\ Len(full_df) = Len(train_df) + Len(val_df) + Len(test_df)
        /\ \A c \in DOMAIN features : Len(features[c]) = Len(full_df)
    /\ \A tag \in DOMAIN written :
        /\ Len(written[tag].rows) = Len(Input(tag))
        /\ RowBag(written[tag].rows) = RowBag(Input(tag))
        /\ \A c \in DOMAIN written[tag].cols :
            Len(written[tag].cols[c]) = Len(Input(tag))

\* a run that finished, of three non-empty partitions whose concatenation the
\* sort had to reorder, every stage's columns written
C6_Witness ==
    /\ pc = "done"
    /\ DOMAIN written = Tags
    /\ \A tag \in Tags : Len(Input(tag)) >= 1
    /\ full_df # concat(train_df, val_df, test_df)
    /\ lag_name(1) \in DOMAIN written["test"].cols
    /\ "timestamp_Hour_sin_1" \in DOMAIN written["test"].cols

\* the columns every feature stage of the run adds
StageColumns ==
    {lag_name(l) : l \in LagsArgs.lags}
    \cup {rolling_name(k[1], k[2]) : k \in RollingKeys(RollingArgs.rolls, RollingArgs.agg_funcs)}
    \cup {seasonal_name(k[1], k[2], k[3]) :
            k \in SeasonalKeys(SeasonalArgs.seasonal_periods, SeasonalArgs.rolls,
                               SeasonalArgs.agg_funcs)}
    \cup {ewma_name(TRUE, q) : q \in EwmaArgs.spans.items}
    \cup {"timestamp_" \o n : n \in attr \cup {"Elapsed"}}
    \cup {fourier_name(FourierArgs.columns_to_encode[j], k[1], k[2]) :
            j \in 1..Len(FourierArgs.columns_to_encode),
            k \in FourierKeys(FourierArgs.n_fourier_terms)}

\* C7: an artifact is written only when no stage has raised and the columns of
\* all six feature stages are in the working table, and each artifact holds
\* them; once a stage has raised the run is over with nothing written.
C7_NothingIsWrittenBeforeAllStagesSucceed ==
    /\ written # <<>> =>
        /\ err = "none"
        /\ pc \in {"cell_28_val", "cell_28_test", "done"}
        /\ StageColumns \subseteq DOMAIN features
        /\ \A tag \in DOMAIN written : StageColumns \subseteq DOMAIN written[tag].cols
    /\ err # "none" => pc = "failed" /\ written = <<>>
    /\ pc = "failed" => err # "none" /\ ~ENABLED Next

\* a run whose lag stage raised on an integral column: over, nothing written
C7_Witness ==
    /\ pc = "failed"
    /\ err = "IntCastingNaNError"
    /\ call.fn = "add_lags"
    /\ written = <<>>
    /\ Len(full_df) >= 1

----------------------------------------------------------------------------
(* Fourier encoding: the cycle *)

\* the max_value the encoding divides by: the one supplied, or the observed
\* maximum of the column
EffectiveMaxValue ==
    IF isna(call.max_value) THEN ColumnMax(Column(full_df)) ELSE call.max_value

\* a cycle that is not positive, or smaller than the largest value encoded
InvalidCycle ==
    /\ ~isna(EffectiveMaxValue)
    /\ \/ ~RLess(Num(0), EffectiveMaxValue)
       \/ /\ Len(full_df) >= 1
          /\ RLess(EffectiveMaxValue, ColumnMax(Column(full_df)))

CalledFourier == pc = "returned" /\ call.fn = "add_fourier_features"

\* C11: a call of add_fourier_features whose effective max_value is not
\* positive, or is smaller than the values of the column it encodes, fails with
\* InvalidCycleError and adds no column.
C11_InvalidCycleIsRejected ==
    (CalledFourier /\ InvalidCycle) =>
        /\ err = "InvalidCycleError"
        /\ added_features = {}

----------------------------------------------------------------------------
(* The notebook run: history across the split boundaries *)

\* the rows of series id in df, in the order of df
SeriesOf(df, id) == SelectSeq(df, LAMBDA r : r.LCLid = id)

\* the rows of series id in the latest partition before tag's that holds any
History(tag, id) ==
    IF tag = "test" /\ SeriesOf(val_df, id) # <<>> THEN SeriesOf(val_df, id)
    ELSE IF tag \in {"val", "test"} THEN SeriesOf(train_df, id)
    ELSE <<>>

\* the entry of column c of the artifact of tag, at the first row of series id
FirstEntry(tag, id, c) ==
    LET first == SeriesOf(written[tag].rows, id)[1]
        k == CHOOSE j \in 1..Len(written[tag].rows) : written[tag].rows[j] = first
    IN  written[tag].cols[c][k]

\* C12: when a series has rows in an earlier partition and in a later one, the
\* artifact of the later partition holds, at the first row of the series and
\* for every lag L of the run that the earlier partition's rows cover, the
\* reading of the L-th last row of the series in the earlier partition, and
\* never the missing-value marker.
C12_HistoryContinuesAcrossSplits ==
    \A tag \in DOMAIN written, id \in LCLids, L \in LagsArgs.lags :
        (SeriesOf(written[tag].rows, id) # <<>> /\ Len(History(tag, id)) >= L) =>
            LET before == History(tag, id)
                v == FirstEntry(tag, id, lag_name(L))
            IN  /\ ~isna(v)
                /\ v = Num(before[Len(before) - L + 1].energy_consumption)

\* a finished run in which series 1 has the readings 1, 2 in train and goes on
\* in val: the first val row of the series has lag 1 = 2 and lag 2 = 1
C12_Witness ==
    /\ pc = "done"
    /\ Len(SeriesOf(train_df, 1)) = 2
    /\ SeriesOf(train_df, 1)[1].energy_consumption = 1
    /\ SeriesOf(train_df, 1)[2].energy_consumption = 2
    /\ SeriesOf(val_df, 1) # <<>>
    /\ FirstEntry("val", 1, lag_name(1)) = Num(2)
    /\ FirstEntry("val", 1, lag_name(2)) = Num(1)

====
